---- MODULE Spec2Model ----
(***************************************************************************)
(* Model of neuralmonkey.decoders.decoder.Decoder: the constructor         *)
(* (configuration checks, graph inputs, the teacher-forced and the         *)
(* free-running unrolled decoding loops, the decoded sequence) and         *)
(* feed_dict.                                                              *)
(*                                                                         *)
(* Tensors with a batch dimension are modelled by the row of one batch     *)
(* element: every operation of the decoding loop acts row-wise (argmax     *)
(* over axis 1, equal, logical_or, embedding lookup).  Each loop step      *)
(* records, next to the operation it builds, the value that operation      *)
(* takes when the graph is run on the batch `train_inputs`, `train_mode`.  *)
(* Real-valued vectors are modelled by integers modulo Modulus.            *)
(***************************************************************************)
EXTENDS Integers, Sequences, FiniteSets, TLC

\* ------------------------------------------------------------------ bounds
\* largest max_output_len a configuration may ask for
MaxLen == 3
\* len(vocabulary): the ids are 0 .. VocabSize-1
VocabSize == 4
\* largest len(dataset) handed to feed_dict
MaxBatch == 2

\* ------------------------------------------------- vocabulary constants
PAD_TOKEN_INDEX == 0
START_TOKEN_INDEX == 1
END_TOKEN_INDEX == 2
UNK_TOKEN_INDEX == 3

Modulus == VocabSize + 1
Ids == 0 .. (VocabSize - 1)

\* Optional[...] values: None is the empty tuple, a value x is <<x>>
None == <<>>
Some(x) == <<x>>

RNN_CELL_TYPES == {"GRU", "LSTM"}

\* ------------------------------------------------------------- the state
VARIABLES
    pc,                 \* position in the constructor / object life cycle
    error,              \* the exception that ended the constructor, or "none"
    encoders,           \* self.encoders: sequence of encoder records
    max_output_len,     \* self.max_output_len
    dropout_keep_prob,  \* self.dropout_keep_prob, in percent
    rnn_size,           \* self.rnn_size (Optional[int])
    embedding_size,     \* self.embedding_size (Optional[int])
    embeddings_source,  \* self.embeddings_source (Optional: width of its matrix)
    encoder_projection, \* self.encoder_projection: "None" or the strategy's name
    use_attention,      \* self.use_attention
    attention_on_input, \* self._attention_on_input
    rnn_cell_str,       \* self._rnn_cell_str
    conditional_gru,    \* self._conditional_gru
    placeholders,       \* names of the placeholders created so far
    var_store,          \* variables created in step_scope: records [name, mode, i]
    step_scope_reuse,   \* self.step_scope.reuse
    outer_scope_reuse,  \* tf.get_variable_scope().reuse inside use_scope()
    train_mode,         \* value fed for the train_mode placeholder
    train_inputs,       \* value fed for decoder_input_placeholder (one row)
    drop_seed,          \* which of the dropout masks the run draws
    initial_state,      \* self.initial_state
    embedded_train_inputs,   \* line 165
    embedded_go_symbols,     \* line 169
    train_attention_objects,    \* self._train_attention_objects
    runtime_attention_objects,  \* self._runtime_attention_objects
    att_created,        \* number of create_attention_object() calls so far
    loop,               \* the frame of the running _decoding_loop call
    step_trace,         \* one record per call of step(): mode, i, reuse, created
    train_logits,       \* self.train_logits
    runtime_logits,     \* self.runtime_logits
    runtime_mask,       \* self.runtime_mask
    decoded,            \* self.decoded
    fd                  \* the last feed_dict call: its arguments and result

vars == <<pc, error, encoders, max_output_len, dropout_keep_prob, rnn_size,
          embedding_size, embeddings_source, encoder_projection, use_attention,
          attention_on_input, rnn_cell_str, conditional_gru, placeholders,
          var_store, step_scope_reuse, outer_scope_reuse, train_mode,
          train_inputs, drop_seed, initial_state, embedded_train_inputs,
          embedded_go_symbols, train_attention_objects,
          runtime_attention_objects, att_created, loop, step_trace,
          train_logits, runtime_logits, runtime_mask, decoded, fd>>

configVars == <<encoders, max_output_len, dropout_keep_prob, embeddings_source,
                use_attention, attention_on_input, rnn_cell_str,
                conditional_gru>>

graphVars == <<placeholders, train_mode, train_inputs, drop_seed,
               initial_state, embedded_train_inputs, embedded_go_symbols>>

\* --------------------------------------------------- configuration inputs
\* An encoder: its identity as a Python object (`key`, what a dictionary keyed
\* by the encoder hashes on), whether it implements Attentive, the width of
\* its summary vector `encoded` and the (toy) value of that summary for the
\* modelled row.  A list may hold the same encoder object more than once.
AttEncoder == [key |-> 1, attentive |-> TRUE, width |-> 2, encoded |-> 1]
PlainEncoder == [key |-> 2, attentive |-> FALSE, width |-> 3, encoded |-> 2]

EncoderLists == {<<>>, <<AttEncoder>>, <<PlainEncoder, AttEncoder>>,
                 <<AttEncoder, AttEncoder>>}
RnnSizes == {None, Some(4)}
EmbeddingSizes == {None, Some(2)}
EmbeddingSources == {None, Some(3)}
EncoderProjections == {"None", "custom"}
CellStrings == {"GRU", "LSTM", "RNN"}
KeepProbs == {50, 100}

\* The configurations explored: every combination of the options the
\* construction checks read, with the step function's options at their
\* defaults, and every combination of the step function's options, with the
\* options the construction checks read at values that pass.
StepOptionsDefault ==
    /\ ~conditional_gru
    /\ ~use_attention
    /\ attention_on_input
    /\ dropout_keep_prob = 100

SizeOptionsDefault ==
    /\ rnn_size = Some(4)
    /\ encoder_projection = "None"
    /\ embedding_size = Some(2)
    /\ embeddings_source = None

NoLoop == [mode |-> "none"]

Init ==
    /\ pc = "init"
    /\ error = "none"
    /\ encoders \in EncoderLists
    /\ max_output_len \in 1 .. MaxLen
    /\ dropout_keep_prob \in KeepProbs
    /\ rnn_size \in RnnSizes
    /\ embedding_size \in EmbeddingSizes
    /\ embeddings_source \in EmbeddingSources
    /\ encoder_projection \in EncoderProjections
    /\ use_attention \in BOOLEAN
    /\ attention_on_input \in BOOLEAN
    /\ rnn_cell_str \in CellStrings
    /\ conditional_gru \in BOOLEAN
    /\ (StepOptionsDefault \/ SizeOptionsDefault)
    /\ placeholders = {}
    /\ var_store = {}
    /\ step_scope_reuse = FALSE
    /\ outer_scope_reuse = FALSE
    /\ train_mode = FALSE
    /\ train_inputs = <<>>
    /\ drop_seed = 0
    /\ initial_state = 0
    /\ embedded_train_inputs = <<>>
    /\ embedded_go_symbols = <<>>
    /\ train_attention_objects = <<>>
    /\ runtime_attention_objects = <<>>
    /\ att_created = 0
    /\ loop = NoLoop
    /\ step_trace = <<>>
    /\ train_logits = <<>>
    /\ runtime_logits = <<>>
    /\ runtime_mask = <<>>
    /\ decoded = <<>>
    /\ fd = [status |-> "none"]

\* ------------------------------------------- __init__, lines 86-142
RECURSIVE SumWidths(_)
SumWidths(es) ==
    IF es = <<>> THEN 0 ELSE Head(es).width + SumWidths(Tail(es))

\* the embedding width after lines 112-118
ResolvedEmbeddingSize ==
    IF embeddings_source # None THEN embeddings_source ELSE embedding_size

\* the projection strategy after lines 120-133
ResolvedProjection ==
    IF encoder_projection # "None" THEN encoder_projection
    ELSE IF encoders = <<>> THEN "empty_initial_state"
    ELSE IF rnn_size = None THEN "concat_encoder_projection"
    ELSE "linear_encoder_projection"

\* self.rnn_size after lines 120-133
ResolvedRnnSize ==
    IF encoder_projection = "None" /\ encoders # <<>> /\ rnn_size = None
    THEN Some(SumWidths(encoders))
    ELSE rnn_size

\* the exception lines 106-138 raise, in the order the code checks
ConfigError ==
    IF embedding_size = None /\ embeddings_source = None THEN "ValueError"
    ELSE IF ResolvedRnnSize = None THEN "AssertionError"
    ELSE IF rnn_cell_str \notin RNN_CELL_TYPES THEN "ValueError"
    ELSE "none"

Configure ==
    /\ pc = "init"
    /\ error' = ConfigError
    /\ pc' = IF ConfigError = "none" THEN "configured" ELSE "failed"
    \* the fields are assigned as far as the constructor got
    /\ embedding_size' =
         IF embedding_size = None /\ embeddings_source = None
         THEN embedding_size ELSE ResolvedEmbeddingSize
    /\ encoder_projection' =
         IF embedding_size = None /\ embeddings_source = None
         THEN encoder_projection ELSE ResolvedProjection
    /\ rnn_size' =
         IF embedding_size = None /\ embeddings_source = None
         THEN rnn_size ELSE ResolvedRnnSize
    /\ UNCHANGED <<configVars, graphVars, var_store, step_scope_reuse,
                   outer_scope_reuse, train_attention_objects,
                   runtime_attention_objects, att_created, loop, step_trace,
                   train_logits, runtime_logits, runtime_mask, decoded, fd>>

\* ------------------------------------------------ numeric stand-ins
Mod(x) == x % Modulus

RECURSIVE SeqSum(_)
SeqSum(xs) == IF xs = <<>> THEN 0 ELSE Head(xs) + SeqSum(Tail(xs))

\* tf.nn.embedding_lookup(self.embedding_matrix, id)
EmbeddingLookup(id) == Mod(2 * id + 1)

\* neuralmonkey.nn.utils.dropout(x, keep_prob, train_mode): a no-op unless the
\* train_mode switch is on; otherwise the unit is dropped or scaled by 1/keep
\* (tm: the value of the switch, seed: the mask drawn, site: where it is applied)
DropoutOp(x, site, tm, seed) ==
    IF tm /\ dropout_keep_prob < 100
    THEN IF (site + seed) % 2 = 1 THEN 0
         ELSE Mod(x * (100 \div dropout_keep_prob))
    ELSE x

DropoutActive == train_mode /\ dropout_keep_prob < 100

\* neuralmonkey.nn.projection.linear(args, size)
Linear(args) == Mod(SeqSum(args) + 1)

\* the smallest index in 0 .. n-1 holding the largest entry (tf.argmax)
ArgMax(l, n) ==
    CHOOSE k \in 0 .. (n - 1) :
        /\ \A j \in 0 .. (n - 1) : l[j] <= l[k]
        /\ \A j \in 0 .. (k - 1) : l[j] < l[k]

\* ------------------------------------------- embed_and_dropout, 293-304
\* A step input: the token looked up, whether the dropout operation is on the
\* path, and the value under the fed batch.
EmbedAndDropoutOp(tok, site, tm, seed) ==
    [tok |-> tok, dropout |-> TRUE,
     val |-> DropoutOp(EmbeddingLookup(tok), site, tm, seed)]

\* lines 420-421: the previous step's argmax, embedded
embed_and_dropout_at(step_logits, site, tm, seed) ==
    LET prev_word_index == ArgMax(step_logits, VocabSize)
    IN  EmbedAndDropoutOp(prev_word_index, site, tm, seed)

\* tf.nn.embedding_lookup(self.embedding_matrix, self.go_symbols), 169-170
EmbeddedGoSymbols ==
    [tok |-> START_TOKEN_INDEX, dropout |-> FALSE,
     val |-> EmbeddingLookup(START_TOKEN_INDEX)]

\* variant: the slice train_inputs[1:] instead of train_inputs[:-1]
EmbeddedTrainInputs_Shifted(row, tm, seed) ==
    [p \in 1 .. (Len(row) - 1) |-> EmbedAndDropoutOp(row[p + 1], p, tm, seed)]

\* self.embed_and_dropout(self.train_inputs[:-1]), 165-166
EmbeddedTrainInputs(row, tm, seed) ==
    [p \in 1 .. (Len(row) - 1) |-> EmbedAndDropoutOp(row[p], p, tm, seed)]

\* ------------------------------------------- _create_initial_state, 254-277
RECURSIVE SumEncoded(_)
SumEncoded(es) ==
    IF es = <<>> THEN 0 ELSE Head(es).encoded + SumEncoded(Tail(es))

EncoderProjection ==
    CASE encoder_projection = "empty_initial_state" -> 0
      [] encoder_projection = "concat_encoder_projection" ->
            Mod(SumEncoded(encoders))
      [] encoder_projection = "linear_encoder_projection" ->
            Mod(2 * SumEncoded(encoders) + 1)
      [] OTHER -> Mod(SumEncoded(encoders) + 3)

InitialState(tm, seed) == DropoutOp(EncoderProjection, 0, tm, seed)

\* ------------------------------------------- sentences_to_tensor (vocabulary)
Words == UNK_TOKEN_INDEX .. (VocabSize - 1)
Sentences(T) == UNION {[1 .. n -> Words] : n \in 0 .. T}

\* one column of `inputs`: the words, the end symbol, then padding, cut at T
SentenceRow(s, T) ==
    [p \in 1 .. T |-> IF p <= Len(s) THEN s[p]
                      ELSE IF p = Len(s) + 1 THEN END_TOKEN_INDEX
                      ELSE PAD_TOKEN_INDEX]

\* one column of `weights`
SentenceWeights(s, T) ==
    [p \in 1 .. T |-> IF p <= Len(s) + 1 THEN 1 ELSE 0]

TargetRows(T) == {SentenceRow(s, T) : s \in Sentences(T)}

\* ------------------------------------------- __init__, lines 144-170
CreateGraph ==
    /\ pc = "configured"
    /\ pc' = "graph"
    /\ placeholders' = {"train_mode", "go_symbols", "train_inputs",
                        "train_padding"}
    /\ \E tm \in BOOLEAN, row \in TargetRows(max_output_len) :
         \E seed \in IF tm /\ dropout_keep_prob < 100 THEN {0, 1} ELSE {0} :
            /\ train_mode' = tm
            /\ train_inputs' = row
            /\ drop_seed' = seed
            /\ initial_state' = InitialState(tm, seed)
            /\ embedded_train_inputs' = EmbeddedTrainInputs(row, tm, seed)
    /\ embedded_go_symbols' = EmbeddedGoSymbols
    /\ UNCHANGED <<error, configVars, rnn_size, embedding_size,
                   encoder_projection, var_store, step_scope_reuse,
                   outer_scope_reuse, train_attention_objects,
                   runtime_attention_objects, att_created, loop, step_trace,
                   train_logits, runtime_logits, runtime_mask, decoded, fd>>

\* ------------------------------------------- attention objects, 172-197, 316-320
\* the number of Attentive encoders among the first k positions of es
RECURSIVE AttentiveBefore(_, _)
AttentiveBefore(es, k) ==
    IF k = 0 THEN 0
    ELSE AttentiveBefore(es, k - 1) + (IF es[k].attentive THEN 1 ELSE 0)

\* the number of create_attention_object() calls one dictionary
\* comprehension makes: one per Attentive position of self.encoders
CreateCalls ==
    IF use_attention THEN AttentiveBefore(encoders, Len(encoders)) ELSE 0

\* {e: e.create_attention_object() for e in self.encoders
\*  if isinstance(e, Attentive)}: one call per Attentive position, the objects
\* numbered in creation order from `first`; the dictionary is keyed by the
\* encoder object, so when an encoder occurs more than once the object of its
\* last position replaces the earlier ones.  An object knows the encoder it
\* was created by, the mode it was created for and its attn_size.
CreateAttentionObjects(mode, first) ==
    IF use_attention
    THEN {[enc |-> encoders[k].key,
           id |-> first + AttentiveBefore(encoders, k - 1),
           mode |-> mode,
           attn_size |-> encoders[k].width] :
            k \in {j \in 1 .. Len(encoders) :
                     /\ encoders[j].attentive
                     /\ \A l \in (j + 1) .. Len(encoders) :
                           encoders[l].key # encoders[j].key}}
    ELSE {}

\* get_attention_object(encoder, train_mode), for the encoder at position k:
\* dict.get on the dictionary of the mode (train_objs when train_mode, else
\* runtime_objs); None when the encoder has no object there
get_attention_object(k, tmode, train_objs, runtime_objs) ==
    LET objs == IF tmode THEN train_objs ELSE runtime_objs
        mine == {a \in objs : a.enc = encoders[k].key}
    IN  IF mine = {} THEN None ELSE Some(CHOOSE a \in mine : TRUE)

RECURSIVE AttObjectsFrom(_, _, _, _)
\* lines 387-389: the objects of self.encoders from position k on, Nones dropped
AttObjectsFrom(k, tmode, train_objs, runtime_objs) ==
    IF k > Len(encoders) THEN <<>>
    ELSE get_attention_object(k, tmode, train_objs, runtime_objs)
         \o AttObjectsFrom(k + 1, tmode, train_objs, runtime_objs)

\* ------------------------------------------- step, lines 322-367
\* the recurrent cell: GRU state is one vector, LSTM state is the pair (c, h)
RnnCell(x, prev_state) ==
    IF rnn_cell_str = "GRU"
    THEN LET new == Mod(2 * prev_state + x + 1)
         IN  [output |-> new, state |-> new]
    ELSE LET c == Mod(prev_state.c + x)
             h == Mod(c + 2 * prev_state.h + 1)
         IN  [output |-> h, state |-> [c |-> c, h |-> h]]

\* tf.contrib.rnn.GRUCell applied as the conditional second cell
ConditionalGruCell(cond_input, state) ==
    LET new == Mod(3 * state + cond_input + 2)
    IN  [output |-> new, state |-> new]

\* a.attention(cell_output, query, x)
Attention(a, cell_output, query, x) == Mod(cell_output + query + x + a.enc)

\* _logit_function, 306-308: dropout, then the affine map to the vocabulary
LogitFunction(output, site, tm, seed) ==
    LET dropped == DropoutOp(output, site, tm, seed)
    IN  [k \in Ids |-> Mod((k + 1) * dropped + k)]

\* whether step takes the conditional path (line 351)
UsesConditionalCell == conditional_gru /\ rnn_cell_str = "GRU"

\* the variables step asks tf.get_variable for inside step_scope
StepVariables(att_objects) ==
    {"cell"}
    \cup (IF attention_on_input THEN {"Linear"} ELSE {})
    \cup (IF UsesConditionalCell THEN {"cond_gru_2_cell"} ELSE {})
    \cup (IF att_objects # <<>> THEN {"AttnOutputProjection"} ELSE {})

\* the values step returns: logits, state, attns
Step(att_objects, input_, prev_state, prev_attns, site, tm, seed) ==
    LET x == IF attention_on_input THEN Linear(<<input_>> \o prev_attns)
             ELSE input_
        cell == RnnCell(x, prev_state)
        query == IF rnn_cell_str = "GRU" THEN prev_state ELSE prev_state.c
        attns == [j \in 1 .. Len(att_objects) |->
                    Attention(att_objects[j], cell.output, query, x)]
        cond == IF UsesConditionalCell
                THEN ConditionalGruCell(Mod(SeqSum(attns)), cell.state)
                ELSE cell
        output == IF attns # <<>> THEN Linear(<<cond.output>> \o attns)
                  ELSE cond.output
    IN  [logits |-> LogitFunction(output, site + 1, tm, seed),
         state |-> cond.state,
         attns |-> attns]

\* ------------------------------------------- _decoding_loop, lines 370-436
\* lines 387-407: the frame before the first iteration
LoopPrologue(tmode, init_state, train_objs, runtime_objs) ==
    LET objs == AttObjectsFrom(1, tmode, train_objs, runtime_objs)
    IN  [mode |-> IF tmode THEN "train" ELSE "runtime",
         i |-> 0,
         att_objects |-> objs,
         state |-> IF rnn_cell_str = "GRU" THEN init_state
                   ELSE [c |-> init_state, h |-> init_state],
         step_logits |-> None,
         attns |-> [j \in 1 .. Len(objs) |-> 0],
         states |-> <<>>,
         logits |-> <<>>,
         mask |-> <<>>,
         finished |-> FALSE,
         inputs |-> <<>>]

\* variant: the train_mode branch of line 417 never taken
ChooseInput_IgnoresTrainMode(L, go_symbols, eti, tm, seed) ==
    IF L.step_logits = None THEN go_symbols
    ELSE embed_and_dropout_at(Head(L.step_logits), L.i, tm, seed)

\* lines 413-421: the input of iteration L.i
ChooseInput(L, go_symbols, eti, tm, seed) ==
    IF L.step_logits = None THEN go_symbols
    ELSE IF L.mode = "train" THEN eti[L.i]
    ELSE embed_and_dropout_at(Head(L.step_logits), L.i, tm, seed)

\* variant: line 429 without the logical_or with the previous flag
NextFinished_NoOr(logits, finished) ==
    ArgMax(logits, VocabSize) = END_TOKEN_INDEX

\* lines 427-429: finished after this step
NextFinished(logits, finished) ==
    LET next_word_id == ArgMax(logits, VocabSize)
        has_just_finished == (next_word_id = END_TOKEN_INDEX)
    IN  has_just_finished \/ finished

\* line 431: the mask entry appended, taken from the updated flag
MaskEntry(logits, finished) == ~NextFinished(logits, finished)

\* lines 413-434: one iteration of the for loop on frame L
LoopBody(L, go_symbols, eti, tm, seed) ==
    LET inp == ChooseInput(L, go_symbols, eti, tm, seed)
        out == Step(L.att_objects, inp.val, L.state, L.attns, L.i, tm, seed)
    IN  [L EXCEPT !.i = L.i + 1,
                  !.step_logits = Some(out.logits),
                  !.state = out.state,
                  !.attns = out.attns,
                  !.finished = NextFinished(out.logits, L.finished),
                  !.mask = Append(L.mask, MaskEntry(out.logits, L.finished)),
                  !.logits = Append(L.logits, out.logits),
                  !.states = Append(L.states, out.state),
                  !.inputs = Append(L.inputs, inp)]

\* ------------------------------------------- __init__, lines 172-185
BeginTrainLoop ==
    /\ pc = "graph"
    /\ pc' = "train_loop"
    /\ train_attention_objects' = CreateAttentionObjects("train", att_created + 1)
    /\ att_created' = att_created + CreateCalls
    /\ loop' = LoopPrologue(TRUE, initial_state, train_attention_objects',
                             runtime_attention_objects)
    /\ UNCHANGED <<error, configVars, rnn_size, embedding_size,
                   encoder_projection, graphVars, var_store, step_scope_reuse,
                   outer_scope_reuse, runtime_attention_objects, step_trace,
                   train_logits, runtime_logits, runtime_mask, decoded, fd>>

\* ------------------------------------------- variable reuse, 328 and 410-411
\* step opens the captured scope object self.step_scope: the reuse flag in
\* force inside step is that object's own flag, which only
\* self.step_scope.reuse_variables() (line 411, i > 0) sets; the flag of the
\* enclosing scope (line 188) is not inherited by a captured scope.
StepReuse(i) == (i > 0) \/ step_scope_reuse

\* tf.get_variable for every name, under reuse flag `reuse`: ValueError when a
\* name exists and reuse is off, or is missing and reuse is on
GetVariablesFails(names, reuse) ==
    LET existing == {r.name : r \in var_store}
    IN  IF reuse THEN ~(names \subseteq existing)
        ELSE names \cap existing # {}

\* line 353: tf.concat of an empty list of attention contexts raises
ConcatFails(att_objects) == UsesConditionalCell /\ att_objects = <<>>

\* ------------------------------------------- _decoding_loop, lines 409-434
DecodingLoopStep ==
    /\ loop.i < max_output_len
    /\ LET reuse == StepReuse(loop.i)
           names == StepVariables(loop.att_objects)
           var_fails == GetVariablesFails(names, reuse)
           fails == var_fails \/ ConcatFails(loop.att_objects)
           created == IF reuse \/ var_fails THEN {}
                      ELSE IF fails THEN names \ {"cond_gru_2_cell"}
                      ELSE names
       IN  /\ step_scope_reuse' = reuse
           /\ step_trace' = Append(step_trace,
                  [mode |-> loop.mode, i |-> loop.i, reuse |-> reuse,
                   created |-> created, raised |-> fails])
           /\ var_store' = var_store \cup
                  {[name |-> n, mode |-> loop.mode, i |-> loop.i] : n \in created}
           /\ IF fails
              THEN /\ pc' = "failed"
                   /\ error' = "ValueError"
                   /\ loop' = loop
              ELSE /\ pc' = pc
                   /\ error' = error
                   /\ loop' = LoopBody(loop, embedded_go_symbols,
                                       embedded_train_inputs, train_mode,
                                       drop_seed)
    /\ UNCHANGED <<configVars, rnn_size, embedding_size, encoder_projection,
                   graphVars, outer_scope_reuse, train_attention_objects,
                   runtime_attention_objects, att_created, train_logits,
                   runtime_logits, runtime_mask, decoded, fd>>

TrainLoopStep == pc = "train_loop" /\ DecodingLoopStep

RuntimeLoopStep == pc = "runtime_loop" /\ DecodingLoopStep

\* ------------------------------------------- __init__, lines 182-203
\* the teacher-forced loop returns (line 436); reuse is switched on for the
\* enclosing scope; the runtime attention objects are fetched; the
\* free-running loop starts
BeginRuntimeLoop ==
    /\ pc = "train_loop"
    /\ loop.i = max_output_len
    /\ train_logits' = loop.logits
    /\ IF outer_scope_reuse
       THEN /\ pc' = "failed"
            /\ error' = "AssertionError"
            /\ UNCHANGED <<outer_scope_reuse, runtime_attention_objects,
                           att_created, loop>>
       ELSE /\ pc' = "runtime_loop"
            /\ error' = error
            /\ outer_scope_reuse' = TRUE
            /\ runtime_attention_objects' =
                   CreateAttentionObjects("runtime", att_created + 1)
            /\ att_created' = att_created + CreateCalls
            /\ loop' = LoopPrologue(FALSE, initial_state,
                                     train_attention_objects,
                                     runtime_attention_objects')
    /\ UNCHANGED <<configVars, rnn_size, embedding_size, encoder_projection,
                   graphVars, var_store, step_scope_reuse,
                   train_attention_objects, step_trace, runtime_logits,
                   runtime_mask, decoded, fd>>

\* ------------------------------------------- __init__, lines 199-229
\* variant: the argmax over the whole vocabulary, without slice and offset
DecodedToken_FullArgmax(logit) == ArgMax(logit, VocabSize)

\* tf.argmax(logit[:, 1:], 1) + 1, lines 217-218
DecodedToken(logit) ==
    ArgMax([j \in 0 .. (VocabSize - 2) |-> logit[j + 1]], VocabSize - 1) + 1

Finish ==
    /\ pc = "runtime_loop"
    /\ loop.i = max_output_len
    /\ pc' = "done"
    /\ runtime_logits' = loop.logits
    /\ runtime_mask' = loop.mask
    /\ decoded' = [t \in 1 .. Len(loop.logits) |-> DecodedToken(loop.logits[t])]
    /\ UNCHANGED <<error, configVars, rnn_size, embedding_size,
                   encoder_projection, graphVars, var_store, step_scope_reuse,
                   outer_scope_reuse, train_attention_objects,
                   runtime_attention_objects, att_created, loop, step_trace,
                   train_logits>>
    /\ fd' = fd

\* ------------------------------------------- feed_dict, lines 454-489
\* the target series of a dataset of n sentences: sentence j has j-1 words
DatasetSentence(j, T) ==
    [p \in 1 .. (IF j - 1 < T THEN j - 1 ELSE T) |-> UNK_TOKEN_INDEX]

\* variant: the check of lines 464-466 left out
FeedDictResult_NoRaise(n, present, train) ==
    LET T == max_output_len
        go == <<[b \in 1 .. n |-> START_TOKEN_INDEX]>>
        inputs == [p \in 1 .. T |->
                     [b \in 1 .. n |-> SentenceRow(DatasetSentence(b, T), T)[p]]]
        weights == [p \in 1 .. T |->
                     [b \in 1 .. n |-> SentenceWeights(DatasetSentence(b, T), T)[p]]]
    IN  IF present
        THEN [status |-> "ok",
              feed |-> [train_mode |-> train, go_symbols |-> go,
                        train_inputs |-> inputs, train_padding |-> weights]]
        ELSE [status |-> "ok",
              feed |-> [train_mode |-> train, go_symbols |-> go]]

\* the dictionary feed_dict returns, or the exception it raises
FeedDictResult(n, present, train) ==
    LET T == max_output_len
        go == <<[b \in 1 .. n |-> START_TOKEN_INDEX]>>
        inputs == [p \in 1 .. T |->
                     [b \in 1 .. n |-> SentenceRow(DatasetSentence(b, T), T)[p]]]
        weights == [p \in 1 .. T |->
                     [b \in 1 .. n |-> SentenceWeights(DatasetSentence(b, T), T)[p]]]
    IN  IF ~present /\ train THEN [status |-> "ValueError"]
        ELSE IF present
        THEN [status |-> "ok",
              feed |-> [train_mode |-> train, go_symbols |-> go,
                        train_inputs |-> inputs, train_padding |-> weights]]
        ELSE [status |-> "ok",
              feed |-> [train_mode |-> train, go_symbols |-> go]]

FeedDict ==
    /\ pc = "done"
    /\ \E n \in 0 .. MaxBatch, present \in BOOLEAN, train \in BOOLEAN :
          fd' = [status |-> "called",
                 call |-> [n |-> n, present |-> present, train |-> train],
                 result |-> FeedDictResult(n, present, train)]
    /\ UNCHANGED <<pc, error, configVars, rnn_size, embedding_size,
                   encoder_projection, graphVars, var_store, step_scope_reuse,
                   outer_scope_reuse, train_attention_objects,
                   runtime_attention_objects, att_created, loop, step_trace,
                   train_logits, runtime_logits, runtime_mask, decoded>>

Next ==
    \/ Configure
    \/ CreateGraph
    \/ BeginTrainLoop
    \/ TrainLoopStep
    \/ BeginRuntimeLoop
    \/ RuntimeLoopStep
    \/ Finish
    \/ FeedDict

Spec == Init /\ [][Next]_vars

\* ====================================================================
\* Properties
\* ====================================================================
InLoop == loop.mode # "none"

\* the argmax of the logits equalled the end-token index at some step <= t
\* (steps counted from 1 in the recorded lists)
EndSeenUpTo(L, t) ==
    \E s \in 1 .. t : ArgMax(L.logits[s], VocabSize) = END_TOKEN_INDEX

\* --------------------------------------------------------------------
\* C1: the loss-mask entry of step t is NOT(finished) as it was before step
\* t's argmax was folded in: true up to and including the first step whose
\* argmax is the end token, false for every later step.
C1_MaskTakenBeforeUpdate ==
    InLoop =>
        \A t \in 1 .. Len(loop.mask) :
            loop.mask[t] = ~EndSeenUpTo(loop, t - 1)

\* --------------------------------------------------------------------
\* C2: finished starts false; after every step it is true exactly when the
\* argmax equalled the end-token index at that step or an earlier one (the
\* value after step t is the complement of the mask entry the code records
\* for t); hence once true it stays true.
C2_FinishedMonotone ==
    InLoop =>
        /\ loop.i = 0 => ~loop.finished
        /\ loop.finished = EndSeenUpTo(loop, Len(loop.logits))
        /\ \A t \in 1 .. Len(loop.mask) :
              (~loop.mask[t]) = EndSeenUpTo(loop, t)
        /\ \A t \in 1 .. Len(loop.mask) : \A u \in t .. Len(loop.mask) :
              ~loop.mask[t] => ~loop.mask[u]

\* a loop that finished at some step and then produced a non-end argmax
C2_Witness ==
    /\ InLoop
    /\ loop.i >= 2
    /\ loop.finished
    /\ ArgMax(loop.logits[Len(loop.logits)], VocabSize) # END_TOKEN_INDEX
    /\ ~loop.mask[1]

\* --------------------------------------------------------------------
\* C3: the input of step 0 is the start token's embedding without dropout;
\* the input of step i > 0 is the embedding, with dropout, of target i-1
\* (teacher-forced) or of the argmax of step i-1's logits (free-running).
C3_InputPolicy ==
    InLoop =>
        \A t \in 1 .. Len(loop.inputs) :
            LET inp == loop.inputs[t]
            IN  IF t = 1
                THEN /\ inp.tok = START_TOKEN_INDEX
                     /\ ~inp.dropout
                     /\ inp.val = EmbeddingLookup(START_TOKEN_INDEX)
                ELSE /\ inp.dropout
                     /\ inp.tok = IF loop.mode = "train"
                                  THEN train_inputs[t - 1]
                                  ELSE ArgMax(loop.logits[t - 1], VocabSize)
                     /\ inp.val \in
                          IF DropoutActive
                          THEN {0, Mod(EmbeddingLookup(inp.tok)
                                       * (100 \div dropout_keep_prob))}
                          ELSE {EmbeddingLookup(inp.tok)}

\* a teacher-forced step fed a target that differs from the model's own
\* previous prediction
C3_Witness ==
    /\ InLoop
    /\ loop.mode = "train"
    /\ loop.i >= 2
    /\ loop.inputs[2].tok # ArgMax(loop.logits[1], VocabSize)
    /\ loop.inputs[2].tok = train_inputs[1]

\* --------------------------------------------------------------------
\* C4: with dropout inactive, a teacher-forced run on any other target row
\* that agrees with the fed row on positions 0..t-1 yields the same logits at
\* steps 0..t (same weights, initial state and train flag); step 0's input is
\* the same for every row, and rows that differ only in the last position
\* yield the same logits at every step.
RECURSIVE RunLoop(_, _, _)
\* the frame after n iterations of the loop started from frame L0
RunLoop(L0, eti, n) ==
    IF n = 0 THEN L0
    ELSE LoopBody(RunLoop(L0, eti, n - 1), embedded_go_symbols, eti,
                  train_mode, drop_seed)

\* the teacher-forced loop run to its end on target row `row`
TeacherForcedRun(row) ==
    RunLoop(LoopPrologue(TRUE, initial_state, train_attention_objects,
                         runtime_attention_objects),
            EmbeddedTrainInputs(row, train_mode, drop_seed),
            max_output_len)

TrainLoopComplete ==
    pc = "train_loop" /\ loop.i = max_output_len

C4_NoFutureInputs ==
    (TrainLoopComplete /\ ~DropoutActive) =>
        \A row \in TargetRows(max_output_len) :
            LET other == TeacherForcedRun(row)
            IN  /\ other.inputs[1] = loop.inputs[1]
                /\ \A t \in 0 .. (max_output_len - 1) :
                      (\A p \in 1 .. t : row[p] = train_inputs[p]) =>
                          \A u \in 1 .. (t + 1) :
                              other.logits[u] = loop.logits[u]

\* two rows agreeing on position 0 only: the logits agree at steps 0 and 1 and
\* differ later
C4_Witness ==
    /\ TrainLoopComplete
    /\ ~DropoutActive
    /\ max_output_len >= 3
    /\ \E row \in TargetRows(max_output_len) :
          /\ row[1] = train_inputs[1]
          /\ row[2] # train_inputs[2]
          /\ TeacherForcedRun(row).logits[3] # loop.logits[3]

\* --------------------------------------------------------------------
\* C5: a decoding loop that was entered runs all T steps: it never stops
\* before, and when it is over its lists of logits, states and mask entries
\* have exactly T elements each.
C5_AlwaysRunsAllSteps ==
    InLoop =>
        /\ Len(loop.logits) = loop.i
        /\ Len(loop.states) = loop.i
        /\ Len(loop.mask) = loop.i
        /\ loop.i <= max_output_len
        /\ pc \notin {"train_loop", "runtime_loop"} =>
              loop.i = max_output_len

\* --------------------------------------------------------------------
\* C6: the step function's weights are created in step 0 of the
\* teacher-forced loop only; every other call of the step function, in
\* either loop, runs with reuse enabled and creates nothing, for every T >= 1.
C6_WeightsCreatedOnce ==
    \A k \in 1 .. Len(step_trace) :
        LET r == step_trace[k]
        IN  IF r.mode = "train" /\ r.i = 0
            THEN ~r.reuse
            ELSE r.reuse /\ r.created = {}

\* --------------------------------------------------------------------
\* C7: every decoded token is the first index among 1 .. vocab_size-1 that
\* holds the largest logit of that range; id 0 is never emitted.
C7_DecodedRange ==
    pc = "done" =>
        /\ Len(decoded) = max_output_len
        /\ \A t \in 1 .. Len(decoded) :
              LET d == decoded[t]
                  l == runtime_logits[t]
              IN  /\ d \in 1 .. (VocabSize - 1)
                  /\ \A k \in 1 .. (VocabSize - 1) : l[k] <= l[d]
                  /\ \A k \in 1 .. (d - 1) : l[k] < l[d]

\* a decoded step whose largest logit sits at index 0
C7_Witness ==
    /\ pc = "done"
    /\ \E t \in 1 .. Len(decoded) :
          /\ ArgMax(runtime_logits[t], VocabSize) = 0
          /\ \A k \in 1 .. (VocabSize - 1) :
                runtime_logits[t][k] < runtime_logits[t][0]
          /\ decoded[t] >= 1

\* --------------------------------------------------------------------
\* C8: a configuration with conditional_gru and rnn_cell = 'LSTM' is
\* rejected at construction and no decoding loop is built.
C8_ConditionalLstmRejected ==
    (conditional_gru /\ rnn_cell_str = "LSTM" /\ pc # "init") =>
        (pc = "failed" /\ loop = NoLoop /\ step_trace = <<>>)

\* --------------------------------------------------------------------
\* C9: an unsupported cell kind always ends construction with a ValueError
\* and no other failure, whatever encoders, rnn_size and encoder_projection
\* are, and no placeholder, weight or decoding step is created.
NothingCreated ==
    /\ placeholders = {}
    /\ var_store = {}
    /\ step_trace = <<>>
    /\ loop = NoLoop

UnsupportedCell == rnn_cell_str \notin RNN_CELL_TYPES

C9_AlwaysValueError ==
    (UnsupportedCell /\ pc # "init") =>
        (pc = "failed" /\ error = "ValueError" /\ NothingCreated)

\* --------------------------------------------------------------------
\* C10: feed_dict raises exactly when train is true and the target series
\* is absent; otherwise the feed holds the train flag and one start-symbol id
\* per batch element, and holds the target ids and padding weights (both of
\* shape T x batch) exactly when the series is present.
C10_FeedDict ==
    fd.status = "called" =>
        LET c == fd.call
            r == fd.result
        IN  /\ (r.status = "ValueError") = (c.train /\ ~c.present)
            /\ r.status \in {"ValueError", "ok"}
            /\ r.status = "ValueError" => DOMAIN r = {"status"}
            /\ r.status = "ok" =>
                  /\ {"train_mode", "go_symbols"} \subseteq DOMAIN r.feed
                  /\ r.feed.train_mode = c.train
                  /\ r.feed.go_symbols = <<[b \in 1 .. c.n |-> START_TOKEN_INDEX]>>
                  /\ c.present =
                        ({"train_inputs", "train_padding"} \subseteq DOMAIN r.feed)
                  /\ c.present =
                        ({"train_inputs", "train_padding"} \cap DOMAIN r.feed # {})
                  /\ c.present =>
                        /\ Len(r.feed.train_inputs) = max_output_len
                        /\ Len(r.feed.train_padding) = max_output_len
                        /\ \A p \in 1 .. max_output_len :
                              /\ Len(r.feed.train_inputs[p]) = c.n
                              /\ Len(r.feed.train_padding[p]) = c.n

\* an inference-time call with targets present and a non-empty batch
C10_Witness ==
    /\ fd.status = "called"
    /\ ~fd.call.train
    /\ fd.call.present
    /\ fd.call.n >= 2
    /\ fd.result.status = "ok"
    /\ "train_inputs" \in DOMAIN fd.result.feed

\* --------------------------------------------------------------------
\* C11: when no projection strategy is given (and the embedding check of
\* lines 106-110 is passed), construction selects exactly one policy and
\* goes on with a resolved, non-null rnn_size: no encoders -> the empty
\* initial state; encoders and no rnn_size -> concatenation, rnn_size the sum
\* of the encoders' summary widths; encoders and rnn_size -> the linear
\* projection, rnn_size unchanged.  After construction's resolution rnn_size
\* is never assigned again.
EmbeddingGiven == embedding_size # None \/ embeddings_source # None

C11_PolicyStep ==
    (pc = "init" /\ pc' # "init" /\ encoder_projection = "None"
       /\ EmbeddingGiven) =>
        /\ rnn_size' # None
        /\ error' # "AssertionError"
        /\ IF encoders = <<>>
           THEN /\ encoder_projection' = "empty_initial_state"
                /\ rnn_size' = rnn_size
           ELSE IF rnn_size = None
           THEN /\ encoder_projection' = "concat_encoder_projection"
                /\ rnn_size' = Some(SumWidths(encoders))
           ELSE /\ encoder_projection' = "linear_encoder_projection"
                /\ rnn_size' = rnn_size

C11_FixedOnceResolved ==
    pc # "init" => (rnn_size' = rnn_size /\ encoder_projection' = encoder_projection)

C11_PolicyResolved ==
    [][C11_PolicyStep /\ C11_FixedOnceResolved]_vars

\* --------------------------------------------------------------------
\* C12: with attention enabled every attentive encoder is asked for exactly
\* one attention object per mode, an encoder's teacher-forced and
\* free-running objects are distinct, each loop uses exactly the objects of
\* its own mode (in encoder order, non-attentive encoders skipped), and the
\* list of attention contexts has one entry per attention object the loop
\* uses at every step, all zero before the first step; with attention
\* disabled no object is created and the list is empty at every step.
AttentiveEncoders ==
    {encoders[k].key : k \in {j \in 1 .. Len(encoders) : encoders[j].attentive}}

\* the dictionary `objs` holds one object of mode `mode` per attentive encoder
OnePerAttentiveEncoder(objs, mode) ==
    /\ {a.enc : a \in objs} = (IF use_attention THEN AttentiveEncoders ELSE {})
    /\ \A a \in objs : a.mode = mode
    /\ \A a, b \in objs : a.enc = b.enc => a = b
    /\ \A a, b \in objs : a.id = b.id => a = b

C12_AttentionObjects ==
    InLoop =>
        LET n == IF use_attention THEN Cardinality(AttentiveEncoders) ELSE 0
            objs == loop.att_objects
            used == {objs[j] : j \in 1 .. Len(objs)}
            own == IF loop.mode = "train" THEN train_attention_objects
                   ELSE runtime_attention_objects
        IN  /\ OnePerAttentiveEncoder(train_attention_objects, "train")
            /\ loop.mode = "runtime" =>
                  /\ OnePerAttentiveEncoder(runtime_attention_objects, "runtime")
                  /\ \A a \in train_attention_objects :
                        \A b \in runtime_attention_objects : a.id # b.id
            \* asked once per attentive encoder and mode
            /\ att_created = (IF loop.mode = "runtime" THEN 2 * n ELSE n)
            /\ used = own
            /\ \A j \in 1 .. Len(objs) : objs[j].mode = loop.mode
            /\ \A j \in 1 .. (Len(objs) - 1) : objs[j].id < objs[j + 1].id
            /\ Len(loop.attns) = Cardinality(used)
            /\ loop.i = 0 => \A j \in 1 .. Len(loop.attns) : loop.attns[j] = 0
            /\ ~use_attention => (objs = <<>> /\ loop.attns = <<>>)

\* --------------------------------------------------------------------
\* C13: in the free-running loop the token whose embedding is the input of
\* step i, 1 <= i < T, is decoded[i-1], whatever the logits of step i-1 are
\* (also when their largest entry is at index 0).
C13_DecodedIsConditionedOn ==
    (pc = "done" /\ loop.mode = "runtime") =>
        \A t \in 2 .. max_output_len :
            loop.inputs[t].tok = decoded[t - 1]
====
